---- MODULE Spec2Model ----
(***************************************************************************)
(* rsstreetview: the tile download pipeline (src/src/download.rs), the     *)
(* panorama assembly and the entry points of src/src/views.rs that call    *)
(* it.                                                                     *)
(*                                                                         *)
(* One call of download_panorama / extract_view / extract_multiple_views   *)
(* is one behaviour.  All tile futures of a call run inside one task       *)
(* (stream::iter(..).map(..).buffer_unordered(8).collect()), so the code   *)
(* between two await points is one atomic step.                            *)
(***************************************************************************)
EXTENDS Integers, Sequences, FiniteSets, TLC

(***************************************************************************)
(* Program constants (src/src/download.rs:8-13).                           *)
(***************************************************************************)
TILE_WIDTH == 512
TILE_HEIGHT == 512
DEFAULT_MAX_RETRIES == 6
RETRY_DELAY_SECS == 2
CONCURRENT_DOWNLOADS == 8

(***************************************************************************)
(* Bounds of the model.                                                    *)
(*   MaxConfigs      longest config slice given to extract_multiple_views  *)
(*   MaxSwaps        exchanges of two tiles explored by SpecAssemble       *)
(*   MaxSide         largest width and height of the images given to the    *)
(*                   border trimmer                                        *)
(* The zooms whose download is explored and the tiles the server may       *)
(* answer badly are the sets ExploredZooms and Servers, further down.      *)
(***************************************************************************)
MaxConfigs == 2

U8 == 0..255

Min(a, b) == IF a < b THEN a ELSE b

RECURSIVE Pow2(_)
\* 2_u32.pow(e); an exponent of 32 or more overflows the u32, which wraps
\* to 0 in a release build
Pow2(e) == IF e >= 32 THEN 0 ELSE IF e <= 0 THEN 1 ELSE 2 * Pow2(e - 1)

\* mutant of get_width_and_height_from_zoom: the height is not halved
get_width_and_height_from_zoom_square(zoom) ==
    [width |-> Pow2(zoom), height |-> Pow2(zoom)]

\* fn get_width_and_height_from_zoom(zoom: u8) -> (u32, u32)
\* (zoom - 1) is a u8 subtraction: for zoom = 0 it panics (debug) or wraps
\* to 255 (release); the caller's range check keeps zoom >= 1.
get_width_and_height_from_zoom(zoom) ==
    [width |-> Pow2(zoom), height |-> Pow2((zoom - 1) % 256)]

\* the inner loop of iter_tile_info, for x in 0..width: the pushes of row y
RowTiles(y, width) == [i \in 1..width |-> [x |-> i - 1, y |-> y]]

RECURSIVE RowsFrom(_, _, _)
\* the outer loop of iter_tile_info, for y in 0..height, from row y on
RowsFrom(y, width, height) ==
    IF y >= height THEN <<>>
    ELSE RowTiles(y, width) \o RowsFrom(y + 1, width, height)

\* fn iter_tile_info(pano_id, zoom) -> Vec<TileInfo> (the url of a TileInfo
\* is a function of pano_id, zoom, x, y and is left out)
iter_tile_info(zoom) ==
    LET d == get_width_and_height_from_zoom(zoom)
    IN  RowsFrom(0, d.width, d.height)

(***************************************************************************)
(* Values.                                                                 *)
(***************************************************************************)
Ok(v) == [kind |-> "Ok", value |-> v]
Err(e) == [kind |-> "Err", error |-> e]
NoValue == [kind |-> "None"]
\* the call did not return: the thread panicked
Panic == [kind |-> "Panic"]

\* StreetViewError variants used by the download path (src/src/error.rs)
ParseError == [variant |-> "ParseError", arg |-> 0]
HttpError == [variant |-> "HttpError", arg |-> 0]
ImageError == [variant |-> "ImageError", arg |-> 0]
TileDownloadFailed(n) == [variant |-> "TileDownloadFailed", arg |-> n]

\* A decoded image: its dimensions and where its pixels come from (src is
\* the address of the tile the server sent; pixel (i,j) of the image is the
\* symbolic value <<src, i, j>>).
Image(w, h, src) == [w |-> w, h |-> h, src |-> src]

\* Dimensions a server answer can decode to: the nominal tile, a wider one,
\* a smaller one.  load_from_memory accepts any of them.
ImageDims ==
    { <<TILE_WIDTH, TILE_HEIGHT>>,
      <<2 * TILE_WIDTH, TILE_HEIGHT>>,
      <<TILE_WIDTH \div 2, TILE_HEIGHT \div 2>> }

\* What one attempt of fetch_tile_with_retry can meet: send() fails,
\* bytes() fails, load_from_memory fails, or an image is decoded.
FailureClasses == {"transport", "body", "decode"}
FetchOutcomes ==
    [class : FailureClasses, w : {0}, h : {0}]
        \cup { [class |-> "ok", w |-> d[1], h |-> d[2]] : d \in ImageDims }

Nominal(o) == o.class = "ok" /\ o.w = TILE_WIDTH /\ o.h = TILE_HEIGHT

(***************************************************************************)
(* The state of one call.                                                  *)
(***************************************************************************)
VARIABLES
    call,          \* the call: [fn, zoom, configs] (zoom: the argument of
                   \* download_panorama; configs: the ViewConfigs given to
                   \* extract_view, extract_multiple_views)
    server,        \* the tiles (indices in tile_infos) whose requests the
                   \* server may answer with anything in FetchOutcomes
    pc,            \* "init" | "downloading" | "done"
    tile_infos,    \* download_tiles: Vec<TileInfo>
    task,          \* per tile_info: the state of its fetch_tile_with_retry
    results,       \* download_tiles: Vec<Result<Tile>>, in completion order
    downloaded,    \* what download_panorama returned to the called function
    ret,           \* what the call returned
    fetches,       \* per tile: requests sent so far (history)
    transport_only,\* per tile: no attempt so far failed other than in
                   \* transport (history)
    final_class,   \* per tile: how the request that ended its loop ended
                   \* (history)
    sleeps,        \* per tile: the pauses taken so far, in seconds (history)
    grid_computed, \* get_width_and_height_from_zoom has been called (history)
    assembled,     \* the tile vectors assemble_tiles was called with (history)
    completed,     \* the tiles whose future has returned, in the order the
                   \* stream yielded them (history)
    grid,          \* the run of iter_tile_info and of the allocation in
                   \* assemble_tiles that SpecGrid steps through
    asm,           \* the run of assemble_tiles that SpecAssemble steps through
    view,          \* the ViewConfig being built and the view extracted with
                   \* it, which SpecView steps through
    trim           \* the run of crop_bottom_and_right_black_border that
                   \* SpecTrim steps through

download_vars == <<call, server, pc, tile_infos, task, results, downloaded, ret,
                   fetches, transport_only, final_class, sleeps, grid_computed,
                   assembled, completed>>
pure_vars == <<grid, asm, view, trim>>
vars == <<download_vars, pure_vars>>

(***************************************************************************)
(* Panorama assembly (src/src/download.rs:116-135).                        *)
(***************************************************************************)
\* DynamicImage::new_rgb8(w, h): every pixel black.  A raster is kept as
\* its dimensions and the rectangles pasted into it, oldest first; a pixel
\* has the value of the last paste that covers it.
new_rgb8(w, h) == [w |-> w, h |-> h, pastes |-> <<>>]

Covers(p, px, py) ==
    /\ p.x <= px /\ px < p.x + p.image.w
    /\ p.y <= py /\ py < p.y + p.image.h

PixelAt(raster, px, py) ==
    LET hits == {k \in 1..Len(raster.pastes) : Covers(raster.pastes[k], px, py)}
    IN  IF hits = {} THEN <<"black">>
        ELSE LET k == CHOOSE k \in hits : \A m \in hits : m <= k
                 p == raster.pastes[k]
             IN  <<p.image.src, px - p.x, py - p.y>>

\* mutant of copy_from: the offsets are exchanged
copy_from_transposed(raster, other, x, y) ==
    IF raster.w < other.w + y \/ raster.h < other.h + x
    THEN Err(ImageError)
    ELSE Ok([raster EXCEPT !.pastes = Append(@, [x |-> y, y |-> x, image |-> other])])

\* GenericImage::copy_from(&mut self, other, x, y): an error when other does
\* not fit at (x, y), else every pixel of other is written at its offset.
copy_from(raster, other, x, y) ==
    IF raster.w < other.w + x \/ raster.h < other.h + y
    THEN Err(ImageError)
    ELSE Ok([raster EXCEPT !.pastes = Append(@, [x |-> x, y |-> y, image |-> other])])

RECURSIVE PasteTiles(_, _, _)
\* the loop `for tile in tiles` of assemble_tiles, from the i-th tile on
PasteTiles(panorama, tiles, i) ==
    IF i > Len(tiles) THEN Ok(panorama)
    ELSE LET tile == tiles[i]
             x_offset == tile.x * TILE_WIDTH
             y_offset == tile.y * TILE_HEIGHT
         IN  CHOOSE res \in
                 { IF r.kind = "Err" THEN r ELSE PasteTiles(r.value, tiles, i + 1) :
                      r \in {copy_from(panorama, tile.image, x_offset, y_offset)} } : TRUE

assemble_tiles(tiles, zoom) ==
    LET d == get_width_and_height_from_zoom(zoom)
        width_pixels == d.width * TILE_WIDTH
        height_pixels == d.height * TILE_HEIGHT
    IN  PasteTiles(new_rgb8(width_pixels, height_pixels), tiles, 1)

\* mutant of CollectResults: the errors are dropped instead of returned
CollectResults_skip_errors(rs) ==
    LET oks == SelectSeq(rs, LAMBDA r : r.kind = "Ok")
    IN  Ok([i \in 1..Len(oks) |-> oks[i].value])

\* mutant of CollectResults: the last Err of the vector is returned
CollectResults_last_error(rs) ==
    LET errs == {i \in 1..Len(rs) : rs[i].kind = "Err"}
    IN  IF errs = {} THEN Ok([i \in 1..Len(rs) |-> rs[i].value])
        ELSE rs[CHOOSE i \in errs : \A j \in errs : i >= j]

\* tiles.into_iter().collect::<Result<Vec<Tile>>>(): the first Err of the
\* vector in its order, else all the tiles in that order
CollectResults(rs) ==
    LET errs == {i \in 1..Len(rs) : rs[i].kind = "Err"}
    IN  IF errs = {} THEN Ok([i \in 1..Len(rs) |-> rs[i].value])
        ELSE rs[CHOOSE i \in errs : \A j \in errs : i <= j]

(***************************************************************************)
(* View extraction (src/src/views.rs:176-239).                             *)
(***************************************************************************)
\* ViewConfig::new(heading) with its pub zoom field set
ViewConfig(heading, zoom) ==
    [heading |-> heading, fov |-> 90, pitch |-> 0, size |-> NoValue, zoom |-> zoom]

\* DynamicImage::crop_imm(x, y, width, height): the rectangle, cut to the image
crop_imm(raster, x, y, width, height) ==
    LET cx == Min(x, raster.w)
        cy == Min(y, raster.h)
    IN  [x |-> cx, y |-> cy,
         w |-> Min(width, raster.w - cx), h |-> Min(height, raster.h - cy)]

\* mutant of saturating_sub: the difference is taken as it comes
saturating_sub_signed(a, b) == a - b

\* saturating_sub on u32
saturating_sub(a, b) == IF a >= b THEN a - b ELSE 0

\* u32::MAX.  It is 4294967295, more than the integers of the checker hold,
\* and is written as the largest of them.  It arises only from the cast of an
\* infinite f64 and from a difference that wrapped, and from there on is only
\* halved, added to, compared with and cut to values far below it.
U32_MAX == 2147483647

\* a + b on u32 in a build without overflow checks (a below 2^31)
wrapping_add(a, b) ==
    IF b = U32_MAX THEN (IF a = 0 THEN U32_MAX ELSE a - 1) ELSE a + b

\* a - b on u32 in a build without overflow checks: a wrapped difference is
\* 2^32 - (b - a), held as U32_MAX
wrapping_sub(a, b) == IF a >= b THEN a - b ELSE U32_MAX

\* crop_height = (half_fov_v * 2.0 * pixels_per_degree_v) as u32, where
\* half_fov_v = half_fov_h / aspect_ratio and aspect_ratio = w / h in f64:
\* w = 0 < h makes aspect_ratio 0 and half_fov_v infinite (NaN when fov = 0);
\* h = 0 < w makes aspect_ratio infinite and half_fov_v 0; w = h = 0 makes
\* them NaN.  The cast takes NaN to 0 and infinity to u32::MAX.
crop_height_of(config, pano_height) ==
    IF config.size.kind = "None" THEN (config.fov * pano_height) \div 180
    ELSE LET w == config.size.value[1]
             h == config.size.value[2]
         IN  IF w = 0 /\ h = 0 THEN 0
             ELSE IF w = 0 THEN (IF config.fov = 0 \/ pano_height = 0 THEN 0 ELSE U32_MAX)
             ELSE IF h = 0 THEN 0
             ELSE (config.fov * h * pano_height) \div (w * 180)

\* The crop window of extract_view_from_panorama (lines 180-217).  The
\* source computes in f64 and casts to u32; the products are written here as
\* exact quotients, which is what the f64 expressions give for the panoramas
\* download_panorama builds (widths 2^z * 512) and the configs explored.
CropWindow(panorama, config) ==
    LET pano_width == panorama.w
        pano_height == panorama.h
        center_x == (config.heading * pano_width) \div 360
        center_y == IF config.pitch > 90 THEN 0
                    ELSE ((90 - config.pitch) * pano_height) \div 180
        crop_width == (config.fov * pano_width) \div 360
        crop_height == crop_height_of(config, pano_height)
        half_width == crop_width \div 2
        half_height == crop_height \div 2
        x_start == saturating_sub(center_x, half_width)
        y_start == saturating_sub(center_y, half_height)
    IN  [center_x |-> center_x, center_y |-> center_y,
         crop_width |-> crop_width, crop_height |-> crop_height,
         half_width |-> half_width, half_height |-> half_height,
         x_start |-> x_start, y_start |-> y_start,
         x_end |-> Min(wrapping_add(x_start, crop_width), pano_width),
         y_end |-> Min(wrapping_add(y_start, crop_height), pano_height)]

\* an addition or subtraction of lines 216-220 leaves the range of u32: a
\* build with overflow checks panics there, a build without them wraps
CropArithmeticOverflows(panorama, config) ==
    LET win == CropWindow(panorama, config)
    IN  \/ win.crop_width = U32_MAX /\ win.x_start > 0
        \/ win.crop_height = U32_MAX /\ win.y_start > 0
        \/ win.x_end < win.x_start
        \/ win.y_end < win.y_start

\* mutant of extract_view_from_panorama: a crop smaller than the target size
\* is not enlarged
extract_view_from_panorama_no_upscale(panorama, config) ==
    LET win == CropWindow(panorama, config)
        cropped == crop_imm(panorama, win.x_start, win.y_start,
                            wrapping_sub(win.x_end, win.x_start),
                            wrapping_sub(win.y_end, win.y_start))
    IN  IF config.size.kind = "None"
        THEN Ok([region |-> cropped, w |-> cropped.w, h |-> cropped.h])
        ELSE Ok([region |-> cropped,
                 w |-> Min(cropped.w, config.size.value[1]),
                 h |-> Min(cropped.h, config.size.value[2])])

\* extract_view_from_panorama, as a build without overflow checks runs it
extract_view_from_panorama(panorama, config) ==
    LET win == CropWindow(panorama, config)
        cropped == crop_imm(panorama, win.x_start, win.y_start,
                            wrapping_sub(win.x_end, win.x_start),
                            wrapping_sub(win.y_end, win.y_start))
    IN  IF config.size.kind = "None"
        THEN Ok([region |-> cropped, w |-> cropped.w, h |-> cropped.h])
        ELSE Ok([region |-> cropped, w |-> config.size.value[1], h |-> config.size.value[2]])

(***************************************************************************)
(* The calls explored.                                                     *)
(***************************************************************************)
ValidZooms == 1..7

\* the valid zooms whose download is explored: grids of 2, 8 and 32 tiles
\* (below, at and above the window of CONCURRENT_DOWNLOADS)
ExploredZooms == {1, 2, 3}

\* zoom arguments given to download_panorama: every u8 outside 1..=7, and
\* the explored ones
DownloadZooms == (U8 \ ValidZooms) \cup ExploredZooms

\* zoom fields given to the view entry points: below, inside and above the range
ViewZooms == {0, 1, 8}

\* heading fields of the configs given to extract_multiple_views: front, back
ViewHeadings == {0, 180}

RECURSIVE SeqsUpTo(_, _)
SeqsUpTo(S, n) ==
    IF n = 0 THEN {<<>>}
    ELSE LET shorter == SeqsUpTo(S, n - 1)
         IN  shorter \cup {Append(q, e) : q \in {r \in shorter : Len(r) = n - 1}, e \in S}

Calls ==
    { [fn |-> "download_panorama", zoom |-> z, configs |-> <<>>] : z \in DownloadZooms }
    \cup { [fn |-> "extract_view", zoom |-> 0, configs |-> <<ViewConfig(0, z)>>] :
              z \in ViewZooms }
    \cup { [fn |-> "extract_multiple_views", zoom |-> 0, configs |-> c] :
              c \in SeqsUpTo({ViewConfig(h, z) : h \in ViewHeadings, z \in ViewZooms},
                              MaxConfigs) }

\* mutant of PassedZoom: the zoom of the last config is used
PassedZoom_last_config ==
    IF call.fn = "download_panorama" THEN call.zoom
    ELSE call.configs[Len(call.configs)].zoom

\* the zoom the call hands to download_panorama
PassedZoom ==
    IF call.fn = "download_panorama" THEN call.zoom ELSE call.configs[1].zoom

DownloadsPanorama == call.fn # "extract_multiple_views" \/ call.configs # <<>>

\* The server answers a request with a decodable 512x512 image, except for
\* the tiles of `server`, whose requests may each end in any of
\* FetchOutcomes.  For a call c whose grid has n tiles, `server` is one of:
\* both tiles of the smallest grid; the first or the last tile of a larger
\* one; the first tile when the call goes through the view entry points.
Servers(c, n) ==
    IF n = 0 THEN {{}}
    ELSE IF c.fn # "download_panorama" THEN {{1}}
    ELSE IF n = 2 THEN {{1, 2}}
    ELSE {{1}, {n}}

TileCount(c) ==
    LET z == IF c.fn = "download_panorama" THEN c.zoom
             ELSE IF c.configs = <<>> THEN 0 ELSE c.configs[1].zoom
    IN  IF z \in ValidZooms THEN Len(iter_tile_info(z)) ELSE 0

(***************************************************************************)
(* Initial state: a call has been chosen and not yet made.                 *)
(***************************************************************************)
Init ==
    /\ call \in Calls
    /\ server \in Servers(call, TileCount(call))
    /\ pc = "init"
    /\ tile_infos = <<>>
    /\ task = <<>>
    /\ results = <<>>
    /\ downloaded = NoValue
    /\ ret = NoValue
    /\ fetches = <<>>
    /\ transport_only = <<>>
    /\ final_class = <<>>
    /\ sleeps = <<>>
    /\ grid_computed = FALSE
    /\ assembled = <<>>
    /\ completed = <<>>
    /\ grid = NoValue
    /\ asm = NoValue
    /\ view = NoValue
    /\ trim = NoValue

(***************************************************************************)
(* One tile: fetch_tile_with_retry (src/src/download.rs:50-96).            *)
(***************************************************************************)
\* mutant of ErrorFor: the decode branch reports the transport error
ErrorFor_decode_as_transport(class, max_retries) ==
    CASE class = "transport" -> TileDownloadFailed(max_retries)
      [] class = "body" -> HttpError
      [] class = "decode" -> TileDownloadFailed(max_retries)

\* the error each failing branch returns once retries >= max_retries
ErrorFor(class, max_retries) ==
    CASE class = "transport" -> TileDownloadFailed(max_retries)
      [] class = "body" -> HttpError
      [] class = "decode" -> ImageError

\* mutant of LoopTurn: the ceiling test is retries > max_retries
LoopTurn_one_more(tile_info, retries, max_retries, o) ==
    IF o.class = "ok"
    THEN [returns |-> TRUE, retries |-> retries,
          out |-> Ok([x |-> tile_info.x, y |-> tile_info.y,
                      image |-> Image(o.w, o.h, <<tile_info.x, tile_info.y>>)])]
    ELSE IF retries > max_retries
    THEN [returns |-> TRUE, retries |-> retries,
          out |-> Err(ErrorFor(o.class, max_retries))]
    ELSE [returns |-> FALSE, retries |-> retries + 1, out |-> NoValue]

\* mutant of LoopTurn: the tile is returned with x and y exchanged
LoopTurn_swapped_address(tile_info, retries, max_retries, o) ==
    IF o.class = "ok"
    THEN [returns |-> TRUE, retries |-> retries,
          out |-> Ok([x |-> tile_info.y, y |-> tile_info.x,
                      image |-> Image(o.w, o.h, <<tile_info.x, tile_info.y>>)])]
    ELSE IF retries >= max_retries
    THEN [returns |-> TRUE, retries |-> retries,
          out |-> Err(ErrorFor(o.class, max_retries))]
    ELSE [returns |-> FALSE, retries |-> retries + 1, out |-> NoValue]

\* One turn of the loop, on the outcome o of the request: the future's
\* output when the loop returns, and the value of `retries` after the turn.
LoopTurn(tile_info, retries, max_retries, o) ==
    IF o.class = "ok"
    THEN [returns |-> TRUE, retries |-> retries,
          out |-> Ok([x |-> tile_info.x, y |-> tile_info.y,
                      image |-> Image(o.w, o.h, <<tile_info.x, tile_info.y>>)])]
    ELSE IF retries >= max_retries
    THEN [returns |-> TRUE, retries |-> retries,
          out |-> Err(ErrorFor(o.class, max_retries))]
    ELSE [returns |-> FALSE, retries |-> retries + 1, out |-> NoValue]

\* mutant of RetryDelay: the pause grows with the number of retries
RetryDelay_backoff(retries) == RETRY_DELAY_SECS * retries

\* Duration::from_secs(RETRY_DELAY_SECS): the pause after `retries` was raised
RetryDelay(retries) == RETRY_DELAY_SECS

(***************************************************************************)
(* All tiles: download_tiles (src/src/download.rs:99-113).                 *)
(***************************************************************************)
Tiles == DOMAIN task
InFlightIn(tk) == {i \in DOMAIN tk : tk[i].st \in {"fetching", "sleeping"}}
InFlight == InFlightIn(task)

\* mutant of Finished: the collection stops at the first failed tile
Finished_on_first_error(tk) ==
    \/ \A i \in DOMAIN tk : tk[i].st \in {"succeeded", "failed"}
    \/ \E i \in DOMAIN tk : tk[i].st = "failed"

\* collect(): the buffered stream has ended, every future has returned
Finished(tk) == \A i \in DOMAIN tk : tk[i].st \in {"succeeded", "failed"}

\* mutant of buffer_unordered: every pending future is pulled at once
buffer_unordered_no_cap(tk, n) ==
    [i \in DOMAIN tk |->
        IF tk[i].st = "pending" THEN [tk[i] EXCEPT !.st = "fetching"] ELSE tk[i]]

\* mutant of buffer_unordered: nothing more is pulled once a future has failed
buffer_unordered_stops_after_failure(tk, n) ==
    [i \in DOMAIN tk |->
        IF /\ tk[i].st = "pending"
           /\ \A j \in DOMAIN tk : tk[j].st # "failed"
           /\ Cardinality(InFlightIn(tk))
                 + Cardinality({j \in 1..(i - 1) : tk[j].st = "pending"}) < n
        THEN [tk[i] EXCEPT !.st = "fetching"]
        ELSE tk[i]]

\* buffer_unordered(n): on each poll, futures are pulled from the stream, in
\* its order, while fewer than n are in progress
buffer_unordered(tk, n) ==
    [i \in DOMAIN tk |->
        IF /\ tk[i].st = "pending"
           /\ Cardinality(InFlightIn(tk))
                 + Cardinality({j \in 1..(i - 1) : tk[j].st = "pending"}) < n
        THEN [tk[i] EXCEPT !.st = "fetching"]
        ELSE tk[i]]

\* mutant of ZoomInRange: the lower limit is one too low
ZoomInRange_from_0(zoom) == zoom \in 0..7

\* fn download_panorama: the range check on zoom
ZoomInRange(zoom) == zoom \in 1..7

\* download_panorama after download_tiles has collected rs
download_panorama_tail(rs, zoom) ==
    LET tiles == CollectResults(rs)
    IN  IF tiles.kind = "Err" THEN tiles ELSE assemble_tiles(tiles.value, zoom)

\* what the called function returns, given what download_panorama returned (panorama)
CallReturn(panorama) ==
    CASE call.fn = "download_panorama" -> panorama
      [] call.fn = "extract_view" ->
            IF panorama.kind = "Err" THEN panorama
            ELSE extract_view_from_panorama(panorama.value, call.configs[1])
      [] call.fn = "extract_multiple_views" ->
            IF panorama.kind = "Err" THEN panorama
            ELSE Ok([i \in 1..Len(call.configs) |->
                        extract_view_from_panorama(panorama.value, call.configs[i]).value])

(***************************************************************************)
(* The environment's bounds.                                               *)
(***************************************************************************)
EnvAllows(t, o) == Nominal(o) \/ t \in server

\* Well-behaved tiles finish in the order they started; a tile of `server`
\* can take any time, so every other tile may finish before it.
OrderAllows(t) == \A u \in InFlight : u < t => u \in server

(***************************************************************************)
(* Actions.                                                                *)
(***************************************************************************)
\* The call, up to its first await: extract_multiple_views returns at once
\* on an empty slice; download_panorama checks zoom; download_tiles lists the
\* tiles and the first poll of the buffered stream pulls the first futures.
Call ==
    /\ pc = "init"
    /\ IF ~DownloadsPanorama
       THEN /\ ret' = Ok(<<>>)
            /\ pc' = "done"
            /\ UNCHANGED <<tile_infos, task, downloaded, fetches, transport_only,
                           final_class, sleeps, grid_computed>>
       ELSE IF ~ZoomInRange(PassedZoom)
       THEN /\ downloaded' = Err(ParseError)
            /\ ret' = CallReturn(Err(ParseError))
            /\ pc' = "done"
            /\ UNCHANGED <<tile_infos, task, fetches, transport_only, final_class,
                           sleeps, grid_computed>>
       ELSE \E infos \in {iter_tile_info(PassedZoom)} :
            \E futures \in {[i \in DOMAIN infos |->
                                [st |-> "pending", retries |-> 0, out |-> NoValue]]} :
                /\ tile_infos' = infos
                /\ grid_computed' = TRUE
                /\ task' = buffer_unordered(futures, CONCURRENT_DOWNLOADS)
                /\ fetches' = [i \in DOMAIN infos |-> 0]
                /\ transport_only' = [i \in DOMAIN infos |-> TRUE]
                /\ final_class' = [i \in DOMAIN infos |-> "none"]
                /\ sleeps' = [i \in DOMAIN infos |-> <<>>]
                /\ pc' = "downloading"
                /\ UNCHANGED <<downloaded, ret>>
    /\ UNCHANGED <<call, server, results, assembled, completed, pure_vars>>

\* One request of tile t ends with outcome o: one turn of the loop of
\* fetch_tile_with_retry.  When the loop returns, the buffered stream yields
\* the output to collect() and pulls the next future; when that was the last
\* output, download_tiles and download_panorama run to their return.
Attempt(t, o) ==
    /\ pc = "downloading"
    /\ task[t].st = "fetching"
    /\ EnvAllows(t, o)
    /\ fetches' = [fetches EXCEPT ![t] = @ + 1]
    /\ transport_only' = [transport_only EXCEPT ![t] = @ /\ o.class \in {"ok", "transport"}]
    /\ \E turn \in {LoopTurn(tile_infos[t], task[t].retries, DEFAULT_MAX_RETRIES, o)} :
           IF turn.returns
           THEN \E returned \in
                       {[task EXCEPT ![t] =
                           [st |-> IF turn.out.kind = "Ok" THEN "succeeded" ELSE "failed",
                            retries |-> turn.retries, out |-> turn.out]]} :
                \E tk \in {buffer_unordered(returned, CONCURRENT_DOWNLOADS)} :
                \E rs \in {Append(results, turn.out)} :
                    /\ OrderAllows(t)
                    /\ final_class' = [final_class EXCEPT ![t] = o.class]
                    /\ task' = tk
                    /\ results' = rs
                    /\ completed' = Append(completed, t)
                    /\ sleeps' = sleeps
                    /\ IF Finished(tk)
                       THEN /\ pc' = "done"
                            /\ \E panorama \in {download_panorama_tail(rs, PassedZoom)} :
                                  /\ downloaded' = panorama
                                  /\ ret' = CallReturn(panorama)
                            /\ assembled' =
                                  IF CollectResults(rs).kind = "Ok"
                                  THEN Append(assembled, CollectResults(rs).value)
                                  ELSE assembled
                       ELSE UNCHANGED <<pc, downloaded, ret, assembled>>
           ELSE /\ task' = [task EXCEPT ![t] =
                               [st |-> "sleeping", retries |-> turn.retries, out |-> NoValue]]
                /\ sleeps' = [sleeps EXCEPT ![t] = Append(@, RetryDelay(turn.retries))]
                /\ UNCHANGED <<results, pc, downloaded, ret, final_class, assembled,
                               completed>>
    /\ UNCHANGED <<call, server, tile_infos, grid_computed, pure_vars>>

\* a request of tile t is answered with a decodable image
FetchSucceeds(t) == \E o \in {f \in FetchOutcomes : f.class = "ok"} : Attempt(t, o)

\* a request of tile t fails in transport, in the body read or in the decode
FetchFails(t) == \E o \in {f \in FetchOutcomes : f.class # "ok"} : Attempt(t, o)

\* mutant of Wake: the count of retries starts again after the pause
Wake_resets_retries(t) ==
    /\ pc = "downloading"
    /\ task[t].st = "sleeping"
    /\ task' = [task EXCEPT ![t].st = "fetching", ![t].retries = 0]
    /\ UNCHANGED <<call, server, pc, tile_infos, results, downloaded, ret, fetches,
                   transport_only, final_class, sleeps, grid_computed, assembled,
                   completed, pure_vars>>

\* tokio::time::sleep(RETRY_DELAY_SECS) of tile t elapses
Wake(t) ==
    /\ pc = "downloading"
    /\ task[t].st = "sleeping"
    /\ task' = [task EXCEPT ![t].st = "fetching"]
    /\ UNCHANGED <<call, server, pc, tile_infos, results, downloaded, ret, fetches,
                   transport_only, final_class, sleeps, grid_computed, assembled,
                   completed, pure_vars>>

Next ==
    \/ Call
    \/ \E t \in Tiles : FetchSucceeds(t)
    \/ \E t \in Tiles : FetchFails(t)
    \/ \E t \in Tiles : Wake(t)

Spec == Init /\ [][Next]_vars

\* The same steps, with every enabled step eventually taken: the executor
\* polls a future that can make progress, every request is answered and
\* every sleep elapses.
FairSpec == Spec /\ WF_vars(Next)

(***************************************************************************)
(* Properties of the download (Spec, FairSpec).                            *)
(***************************************************************************)
Range(f) == {f[i] : i \in DOMAIN f}
Addresses(tiles) == {[x |-> a.x, y |-> a.y] : a \in Range(tiles)}
AllSucceeded == \A t \in Tiles : task[t].st = "succeeded"
AnyFailed == \E t \in Tiles : task[t].st = "failed"
Returned == pc = "done" /\ DownloadsPanorama

\* C1: download_panorama returns a panorama only if every one of the
\* gridWidth x gridHeight tiles of the zoom reached Succeeded; otherwise it
\* returns one error and no panorama, and assemble_tiles is only ever called
\* with the whole grid.
C1_PanoramaOnlyFromCompleteGrid ==
    /\ \A k \in 1..Len(assembled) :
          /\ Len(assembled[k]) = (2 ^ PassedZoom) * (2 ^ (PassedZoom - 1))
          /\ Addresses(assembled[k]) =
                {[x |-> i, y |-> j] : i \in 0..(2 ^ PassedZoom - 1),
                                      j \in 0..(2 ^ (PassedZoom - 1) - 1)}
    /\ downloaded.kind = "Ok" =>
          /\ Returned /\ AllSucceeded
          /\ Len(tile_infos) = (2 ^ PassedZoom) * (2 ^ (PassedZoom - 1))
    /\ (Returned /\ ~(AllSucceeded /\ tile_infos # <<>>)) =>
          /\ downloaded.kind = "Err"
          /\ ret = downloaded
          /\ assembled = <<>>
    /\ Returned => downloaded.kind \in {"Ok", "Err"}
    /\ (Returned /\ call.fn = "download_panorama") => ret = downloaded

C1_Witness ==
    /\ pc = "done"
    /\ call.fn = "download_panorama"
    /\ downloaded.kind = "Ok"
    /\ Len(tile_infos) = 32
    /\ \E t \in Tiles : fetches[t] > 1

\* C2: at any moment of a download at most 8 tiles have been started and
\* have not yet reached Succeeded or Failed, the tiles pausing between two
\* attempts included.
C2_AtMostEightInFlight ==
    Cardinality({t \in Tiles : task[t].st \in {"fetching", "sleeping"}}) <= 8

C2_Witness ==
    /\ Cardinality({t \in Tiles : task[t].st \in {"fetching", "sleeping"}}) = 8
    /\ \E t \in Tiles : task[t].st = "sleeping"
    /\ \E t \in Tiles : task[t].st = "pending"
    /\ \E t \in Tiles : task[t].st = "succeeded"

\* C3: a tile whose attempts all fail, in any mix of transport, body and
\* decode failures, is Failed after exactly 7 requests, and no tile is ever
\* requested more than 7 times.
C3_FailedAfterSevenAttempts ==
    \A t \in Tiles :
        /\ fetches[t] <= 7
        /\ task[t].st = "failed" => fetches[t] = 7
        /\ (fetches[t] = 7 /\ task[t].st # "succeeded") => task[t].st = "failed"
        /\ (fetches[t] < 7 /\ final_class[t] # "ok") => task[t].st # "failed"

C3_Witness ==
    \E t \in Tiles :
        /\ task[t].st = "failed"
        /\ fetches[t] = 7
        /\ ~transport_only[t]
        /\ final_class[t] = "transport"

\* C4: a tile whose first N < 6 requests fail in transport and whose next
\* request succeeds is Succeeded after exactly N + 1 requests, carries its
\* own (x, y) address, and is never requested again.
C4_State ==
    \A t \in Tiles :
        (task[t].st = "succeeded" /\ transport_only[t] /\ task[t].retries < 6) =>
            /\ fetches[t] = task[t].retries + 1
            /\ Len(sleeps[t]) = task[t].retries
            /\ task[t].out.kind = "Ok"
            /\ task[t].out.value.x = (t - 1) % (2 ^ PassedZoom)
            /\ task[t].out.value.y = (t - 1) \div (2 ^ PassedZoom)

C4_Step ==
    \A t \in Tiles :
        task[t].st = "succeeded" => (task'[t] = task[t] /\ fetches'[t] = fetches[t])

C4_SucceedsAfterTransportFailures == [](C4_State) /\ [][C4_Step]_vars

C4_Witness ==
    \E t \in Tiles :
        /\ task[t].st = "succeeded"
        /\ transport_only[t]
        /\ task[t].retries = 5
        /\ fetches[t] = 6
        /\ tile_infos[t].x # tile_infos[t].y

\* C5: once a tile is Failed the download ends in an error; the tiles in
\* flight at that moment are not cancelled (the call returns only when each
\* has reached Succeeded or Failed) and nothing of their results is returned.
C5_State ==
    /\ (pc = "done" /\ tile_infos # <<>>) =>
          /\ \A t \in Tiles : task[t].st \in {"succeeded", "failed"}
          /\ Len(results) = Len(tile_infos)
    /\ (pc = "done" /\ AnyFailed) =>
          /\ downloaded.kind = "Err"
          /\ ret = downloaded
          /\ ret.error \in {TileDownloadFailed(6), HttpError, ImageError}

C5_Step ==
    \A t \in Tiles :
        task[t].st \in {"fetching", "sleeping"} =>
            task'[t].st \in {"fetching", "sleeping", "succeeded", "failed"}

C5_FailureEndsInErrorWithoutCancel ==
    /\ [](C5_State)
    /\ [][C5_Step]_vars
    /\ (AnyFailed ~> (pc = "done" /\ ret.kind = "Err"))

C5_Witness ==
    /\ pc = "done"
    /\ ret.kind = "Err"
    /\ Len(results) = 8
    /\ results[1].kind = "Err"
    /\ \A i \in 2..8 : results[i].kind = "Ok"

\* C6: for every zoom outside 1..=7, download_panorama, and extract_view and
\* extract_multiple_views which pass it the zoom of their (first) config,
\* return an error without requesting a tile and without computing the
\* grid dimensions.
C6_ZoomRejectedBeforeAnyFetch ==
    (DownloadsPanorama /\ PassedZoom \notin 1..7) =>
        /\ pc \in {"init", "done"}
        /\ ~grid_computed
        /\ tile_infos = <<>>
        /\ \A t \in DOMAIN fetches : fetches[t] = 0
        /\ results = <<>>
        /\ pc = "done" => (ret = Err(ParseError) /\ downloaded = Err(ParseError))

C6_Witness ==
    /\ pc = "done"
    /\ call.fn = "extract_multiple_views"
    /\ Len(call.configs) = 2
    /\ PassedZoom = 8
    /\ ret.kind = "Err"

\* C7: the error of a Failed tile is that of its 7th request alone
\* (transport: TileDownloadFailed, body: HttpError, decode: ImageError),
\* whatever the earlier requests met; when one tile ends on undecodable
\* bytes and every other tile succeeds, download_panorama returns the image
\* (decode) error and no panorama.
C7_ErrorOfLastAttempt ==
    /\ \A t \in Tiles :
          task[t].st = "failed" =>
              /\ final_class[t] = "transport" =>
                    task[t].out = Err([variant |-> "TileDownloadFailed", arg |-> 6])
              /\ final_class[t] = "body" =>
                    task[t].out = Err([variant |-> "HttpError", arg |-> 0])
              /\ final_class[t] = "decode" =>
                    task[t].out = Err([variant |-> "ImageError", arg |-> 0])
              /\ final_class[t] \in FailureClasses
    /\ \A t \in Tiles :
          (/\ pc = "done"
           /\ final_class[t] = "decode"
           /\ \A u \in Tiles \ {t} : task[u].st = "succeeded") =>
              /\ downloaded = Err([variant |-> "ImageError", arg |-> 0])
              /\ ret = downloaded

C7_Witness ==
    /\ pc = "done"
    /\ Len(tile_infos) = 8
    /\ \E t \in Tiles :
          /\ final_class[t] = "decode"
          /\ ~transport_only[t]
          /\ \A u \in Tiles \ {t} : task[u].st = "succeeded"
    /\ downloaded = Err(ImageError)

(***************************************************************************)
(* The tile grid, step by step (SpecGrid): get_width_and_height_from_zoom, *)
(* the two loops of iter_tile_info (one push per step), and the allocation *)
(* in assemble_tiles, for each zoom download_panorama lets through.        *)
(***************************************************************************)
\* no call is in progress
NoDownload ==
    /\ call = [fn |-> "download_panorama", zoom |-> 0, configs |-> <<>>]
    /\ server = {}
    /\ pc = "init"
    /\ tile_infos = <<>>
    /\ task = <<>>
    /\ results = <<>>
    /\ downloaded = NoValue
    /\ ret = NoValue
    /\ fetches = <<>>
    /\ transport_only = <<>>
    /\ final_class = <<>>
    /\ sleeps = <<>>
    /\ grid_computed = FALSE
    /\ assembled = <<>>
    /\ completed = <<>>

InitGrid ==
    /\ NoDownload
    /\ asm = NoValue
    /\ view = NoValue
    /\ trim = NoValue
    /\ grid \in { [pc |-> "dims", zoom |-> z, width |-> 0, height |-> 0,
                   y |-> 0, x |-> 0, tiles |-> <<>>, panorama |-> NoValue] :
                     z \in {zoom \in U8 : ZoomInRange(zoom)} }

\* let (width, height) = get_width_and_height_from_zoom(zoom)
GridDims ==
    /\ grid.pc = "dims"
    /\ grid' = [grid EXCEPT !.pc = "loop",
                            !.width = get_width_and_height_from_zoom(grid.zoom).width,
                            !.height = get_width_and_height_from_zoom(grid.zoom).height]
    /\ UNCHANGED <<download_vars, asm, view, trim>>

\* mutant of GridPush: the address is pushed with x and y exchanged
GridPush_swapped ==
    /\ grid.pc = "loop"
    /\ grid.y < grid.height
    /\ grid.x < grid.width
    /\ grid' = [grid EXCEPT !.tiles = Append(@, [x |-> grid.y, y |-> grid.x]),
                            !.x = @ + 1]
    /\ UNCHANGED <<download_vars, asm, view, trim>>

\* for x in 0..width { tiles.push(TileInfo { x, y, .. }) }
GridPush ==
    /\ grid.pc = "loop"
    /\ grid.y < grid.height
    /\ grid.x < grid.width
    /\ grid' = [grid EXCEPT !.tiles = Append(@, [x |-> grid.x, y |-> grid.y]),
                            !.x = @ + 1]
    /\ UNCHANGED <<download_vars, asm, view, trim>>

\* for y in 0..height: the inner loop is over, the next row starts
GridNextRow ==
    /\ grid.pc = "loop"
    /\ grid.y < grid.height
    /\ grid.x >= grid.width
    /\ grid' = [grid EXCEPT !.y = @ + 1, !.x = 0]
    /\ UNCHANGED <<download_vars, asm, view, trim>>

\* the outer loop is over: iter_tile_info returns tiles
GridReturn ==
    /\ grid.pc = "loop"
    /\ grid.y >= grid.height
    /\ grid' = [grid EXCEPT !.pc = "listed"]
    /\ UNCHANGED <<download_vars, asm, view, trim>>

\* assemble_tiles: RgbImage::new(width_pixels, height_pixels), before any paste
GridAllocate ==
    /\ grid.pc = "listed"
    /\ grid' = [grid EXCEPT !.pc = "allocated",
                            !.panorama = assemble_tiles(<<>>, grid.zoom).value]
    /\ UNCHANGED <<download_vars, asm, view, trim>>

NextGrid == GridDims \/ GridPush \/ GridNextRow \/ GridReturn \/ GridAllocate

SpecGrid == InitGrid /\ [][NextGrid]_vars

\* C8: for every zoom z in 1..=7 the grid is 2^z tiles wide and 2^(z-1)
\* tiles high (half the width), and the panorama is allocated at
\* (2^z * 512) x (2^(z-1) * 512) pixels.
C8_GridAndPanoramaDimensions ==
    /\ grid.zoom \in 1..7
    /\ grid.pc # "dims" =>
          /\ grid.width = 2 ^ grid.zoom
          /\ grid.height = 2 ^ (grid.zoom - 1)
          /\ grid.width = 2 * grid.height
    /\ grid.pc = "allocated" =>
          /\ grid.panorama.w = (2 ^ grid.zoom) * 512
          /\ grid.panorama.h = (2 ^ (grid.zoom - 1)) * 512
          /\ grid.panorama.pastes = <<>>

C8_Witness ==
    /\ grid.pc = "allocated"
    /\ grid.zoom = 4
    /\ grid.width = 16
    /\ grid.height = 8
    /\ grid.panorama.w = 8192
    /\ grid.panorama.h = 4096

MaxSwaps == 2

\* the zooms whose grids are assembled: 2 tiles and 8 tiles
AssembleZooms == {1, 2}

\* the tile fetch_tile_with_retry returns for tile_info when the bytes decode
\* to an image of dims
DecodedTile(tile_info, dims) ==
    LoopTurn(tile_info, 0, DEFAULT_MAX_RETRIES,
             [class |-> "ok", w |-> dims[1], h |-> dims[2]]).out.value

\* the tiles of the grid of zoom, row-major; tile number odd (none when 0)
\* decoded to dims, every other tile to TILE_WIDTH x TILE_HEIGHT
DecodedGrid(zoom, odd, dims) ==
    LET infos == iter_tile_info(zoom)
    IN  [i \in DOMAIN infos |->
            DecodedTile(infos[i],
                        IF i = odd THEN dims ELSE <<TILE_WIDTH, TILE_HEIGHT>>)]

Swap(s, i, j) == [s EXCEPT ![i] = s[j], ![j] = s[i]]

InitAssemble ==
    /\ NoDownload
    /\ grid = NoValue
    /\ view = NoValue
    /\ trim = NoValue
    /\ \E z \in AssembleZooms :
       \E odd \in 0..Len(iter_tile_info(z)) :
       \E dims \in ImageDims :
          asm = [pc |-> "collected", zoom |-> z, tiles |-> DecodedGrid(z, odd, dims),
                 order |-> <<>>, swaps |-> 0,
                 reference |-> NoValue, shuffled |-> NoValue]

\* assemble_tiles(tiles, zoom) on the tiles in row-major order
AssembleReference ==
    /\ asm.pc = "collected"
    /\ asm' = [asm EXCEPT !.pc = "assembled",
                          !.order = asm.tiles,
                          !.reference = assemble_tiles(asm.tiles, asm.zoom)]
    /\ UNCHANGED <<download_vars, grid, view, trim>>

\* assemble_tiles(tiles, zoom) on the same tiles with two more exchanged
Shuffle(i, j) ==
    /\ asm.pc \in {"assembled", "shuffled"}
    /\ asm.swaps < MaxSwaps
    /\ i < j
    /\ \E order \in {Swap(asm.order, i, j)} :
          asm' = [asm EXCEPT !.pc = "shuffled",
                             !.order = order,
                             !.swaps = @ + 1,
                             !.shuffled = assemble_tiles(order, asm.zoom)]
    /\ UNCHANGED <<download_vars, grid, view, trim>>

NextAssemble ==
    \/ AssembleReference
    \/ \E i, j \in DOMAIN asm.order : Shuffle(i, j)

SpecAssemble == InitAssemble /\ [][NextAssemble]_vars

\* Every rectangle pasted has its corners on multiples of half a tile, so two
\* rasters of the same size agree everywhere when they agree on one pixel of
\* each half-tile cell.
CellPixels(n) == {k * (TILE_WIDTH \div 2) : k \in 0..((n \div (TILE_WIDTH \div 2)) - 1)}

SamePanorama(a, b) ==
    IF a.kind = "Err" \/ b.kind = "Err" THEN a = b
    ELSE /\ a.value.w = b.value.w
         /\ a.value.h = b.value.h
         /\ \A px \in CellPixels(a.value.w), py \in CellPixels(a.value.h) :
               PixelAt(a.value, px, py) = PixelAt(b.value, px, py)

\* C10: assembly is order-independent: for a given set of tile results every
\* permutation of the sequence passed to assemble_tiles gives the identical
\* panorama, same dimensions and same value at every pixel.
C10_AssemblyOrderIndependent ==
    asm.pc = "shuffled" => SamePanorama(asm.reference, asm.shuffled)

(***************************************************************************)
(* More properties of the download (Spec).                                 *)
(***************************************************************************)
\* C11: if any tile of the set decoded to dimensions other than 512 x 512
\* (smaller or larger, at any grid position) the assembly returns a
\* structural error and no panorama, and that tile is not requested again.
C11_DimensionMismatchRejected ==
    /\ \A t \in Tiles :
          (/\ pc = "done"
           /\ AllSucceeded
           /\ \/ task[t].out.value.image.w # 512
              \/ task[t].out.value.image.h # 512) =>
              /\ downloaded.kind = "Err"
              /\ ret.kind = "Err"
    /\ \A t \in Tiles :
          task[t].st = "succeeded" => fetches[t] = task[t].retries + 1

(***************************************************************************)
(* ViewConfig and extract_view_from_panorama, step by step (SpecView):     *)
(* a config is made by a constructor, changed by any sequence of builder   *)
(* calls, and a view is extracted with it from a panorama.                 *)
(***************************************************************************)
\* Direction::heading
Direction_heading(direction) ==
    CASE direction = "Front" -> 0
      [] direction = "Right" -> 90
      [] direction = "Back" -> 180
      [] direction = "Left" -> 270

Directions == {"Front", "Right", "Back", "Left"}

\* ViewConfig::new(heading)
ViewConfig_new(heading) ==
    [heading |-> heading, fov |-> 90, pitch |-> 0, size |-> NoValue, zoom |-> 3]

\* ViewConfig::from_direction(direction)
ViewConfig_from_direction(direction) == ViewConfig_new(Direction_heading(direction))

\* impl Default for ViewConfig
ViewConfig_default == ViewConfig_new(0)

\* ViewConfig::fov: self.fov = fov.min(180)
ViewConfig_fov(self, fov) == [self EXCEPT !.fov = Min(fov, 180)]

\* ViewConfig::pitch: self.pitch = pitch.clamp(-90, 90)
ViewConfig_pitch(self, pitch) ==
    [self EXCEPT !.pitch = IF pitch < -90 THEN -90 ELSE Min(pitch, 90)]

\* ViewConfig::size: self.size = Some((width, height))
ViewConfig_size(self, width, height) ==
    [self EXCEPT !.size = [kind |-> "Some", value |-> <<width, height>>]]

\* ViewConfig::zoom: self.zoom = zoom.clamp(1, 7)
ViewConfig_zoom(self, zoom) ==
    [self EXCEPT !.zoom = IF zoom < 1 THEN 1 ELSE Min(zoom, 7)]

\* The arguments explored: values inside, at and outside each documented
\* range (heading: u16, fov: u16, pitch: i16, zoom: u8, size: (u32, u32)).
HeadingArgs == {0, 45, 359, 400}
FovArgs == {0, 1, 90, 120, 180, 200}
PitchArgs == {-100, -90, 0, 10, 90, 100}
SizeArgs == {<<800, 600>>, <<1920, 1>>, <<0, 600>>, <<800, 0>>}
ZoomArgs == {0, 1, 7, 9}

\* The panoramas views are extracted from: the smallest image and two of
\* the sizes download_panorama builds.  For widths and heights that are
\* powers of two the f64 expressions of extract_view_from_panorama equal the
\* exact quotients used in the operator of that name above.
PanoramaSizes == {<<1, 1>>, <<1024, 512>>, <<4096, 2048>>}

InitView ==
    /\ NoDownload
    /\ grid = NoValue
    /\ asm = NoValue
    /\ trim = NoValue
    /\ view = [pc |-> "none", made_by |-> "", config |-> NoValue,
               panorama |-> NoValue, out |-> NoValue]

ViewNew ==
    /\ view.pc = "none"
    /\ \E heading \in HeadingArgs :
          view' = [view EXCEPT !.pc = "config", !.made_by = "new",
                               !.config = ViewConfig_new(heading)]
    /\ UNCHANGED <<download_vars, grid, asm, trim>>

ViewFromDirection ==
    /\ view.pc = "none"
    /\ \E direction \in Directions :
          view' = [view EXCEPT !.pc = "config", !.made_by = "from_direction",
                               !.config = ViewConfig_from_direction(direction)]
    /\ UNCHANGED <<download_vars, grid, asm, trim>>

ViewDefault ==
    /\ view.pc = "none"
    /\ view' = [view EXCEPT !.pc = "config", !.made_by = "default",
                         !.config = ViewConfig_default]
    /\ UNCHANGED <<download_vars, grid, asm, trim>>

ViewFov ==
    /\ view.pc = "config"
    /\ \E fov \in FovArgs : view' = [view EXCEPT !.config = ViewConfig_fov(@, fov)]
    /\ UNCHANGED <<download_vars, grid, asm, trim>>

ViewPitch ==
    /\ view.pc = "config"
    /\ \E pitch \in PitchArgs : view' = [view EXCEPT !.config = ViewConfig_pitch(@, pitch)]
    /\ UNCHANGED <<download_vars, grid, asm, trim>>

ViewSize ==
    /\ view.pc = "config"
    /\ \E size \in SizeArgs :
          view' = [view EXCEPT !.config = ViewConfig_size(@, size[1], size[2])]
    /\ UNCHANGED <<download_vars, grid, asm, trim>>

ViewZoom ==
    /\ view.pc = "config"
    /\ \E zoom \in ZoomArgs : view' = [view EXCEPT !.config = ViewConfig_zoom(@, zoom)]
    /\ UNCHANGED <<download_vars, grid, asm, trim>>

\* extract_view_from_panorama(&panorama, &config), in a build with or without
\* overflow checks
ViewExtract ==
    /\ view.pc = "config"
    /\ \E dims \in PanoramaSizes :
       \E panorama \in {new_rgb8(dims[1], dims[2])} :
       \E overflow_checks \in BOOLEAN :
          view' = [view EXCEPT !.pc = "extracted",
                               !.panorama = panorama,
                               !.out = IF overflow_checks
                                          /\ CropArithmeticOverflows(panorama, view.config)
                                       THEN Panic
                                       ELSE extract_view_from_panorama(panorama,
                                                                       view.config)]
    /\ UNCHANGED <<download_vars, grid, asm, trim>>

NextView ==
    \/ ViewNew \/ ViewFromDirection \/ ViewDefault
    \/ ViewFov \/ ViewPitch \/ ViewSize \/ ViewZoom
    \/ ViewExtract

SpecView == InitView /\ [][NextView]_vars

\* C12: with heading = 0, pitch = 0, fov = 90 and no target size, on any
\* W x H panorama the crop window is centred at (W/2, H/2) and W/4 wide: it
\* spans x from W/2 - W/8 to W/2 + W/8.
C12_FrontViewCentred ==
    (/\ view.pc = "extracted"
     /\ view.config.heading = 0 /\ view.config.pitch = 0 /\ view.config.fov = 90
     /\ view.config.size.kind = "None"
     /\ view.panorama.w >= 8) =>
        LET W == view.panorama.w
            H == view.panorama.h
            r == view.out.value.region
        IN  /\ view.out.kind = "Ok"
            /\ r.w = W \div 4
            /\ r.x = (W \div 2) - (W \div 8)
            /\ r.x + r.w = (W \div 2) + (W \div 8)
            /\ 2 * r.y + r.h = H

\* C13: whenever the ViewConfig carries a target size (w, h), the view that
\* extract_view_from_panorama returns has dimensions exactly (w, h), whatever
\* the size of the clamped native crop (no view is returned when the window
\* arithmetic panics).
C13_TargetSizeIsExact ==
    (view.pc = "extracted" /\ view.config.size.kind = "Some") =>
        /\ view.out.kind \in {"Ok", "Panic"}
        /\ view.out.kind = "Panic" => CropArithmeticOverflows(view.panorama, view.config)
        /\ view.out.kind = "Ok" =>
              /\ view.out.value.w = view.config.size.value[1]
              /\ view.out.value.h = view.config.size.value[2]

C13_Witness ==
    /\ view.pc = "extracted"
    /\ view.config.size.kind = "Some"
    /\ view.config.size.value = <<800, 600>>
    /\ view.out.kind = "Ok"
    /\ view.out.value.region.w = 256
    /\ view.out.value.region.h < 600
    /\ view.out.value.region.h > 0

\* C14: for every panorama of at least 1 x 1 pixels and every ViewConfig
\* with heading in [0, 360), fov in (0, 180] and pitch in [-90, 90], the crop
\* window is at least 1 pixel wide and 1 pixel high.
C14_CropNeverEmpty ==
    (/\ view.pc = "extracted"
     /\ view.panorama.w >= 1 /\ view.panorama.h >= 1
     /\ view.config.heading \in 0..359
     /\ view.config.fov \in 1..180
     /\ view.config.pitch \in -90..90) =>
        /\ view.out.kind = "Ok"
        /\ view.out.value.region.w >= 1
        /\ view.out.value.region.h >= 1

\* C15: a view request with field of view 0 is rejected with an
\* invalid-parameter error before any crop or resize; it never yields a
\* raster.
C15_ZeroFovRejected ==
    (view.pc = "extracted" /\ view.config.fov <= 0) => view.out.kind = "Err"

\* C19: every ViewConfig made by ViewConfig::new, from_direction or default
\* and any sequence of the builder calls fov, pitch, size and zoom has
\* heading in [0, 360), fov in (0, 180], pitch in [-90, 90], zoom in [1, 7].
C19_ViewConfigInDomain ==
    view.pc \in {"config", "extracted"} =>
        /\ view.config.heading \in 0..359
        /\ view.config.fov \in 1..180
        /\ view.config.pitch \in -90..90
        /\ view.config.zoom \in 1..7

(***************************************************************************)
(* Border trimming (src/src/utils.rs:36-126), step by step (SpecTrim).     *)
(* An image is kept as its dimensions and the luminance of each pixel,     *)
(* what img.to_luma8() gives the scans.                                    *)
(***************************************************************************)
BLACK_LUMINANCE_THRESHOLD == 4

\* the largest width and height of the images explored
MaxSide == 3

\* luminances at and just above the threshold
Lumas == {BLACK_LUMINANCE_THRESHOLD, BLACK_LUMINANCE_THRESHOLD + 1}

Pixels(w, h) == (0..(w - 1)) \X (0..(h - 1))

LumaImages ==
    UNION { { [w |-> w, h |-> h, px |-> f] : f \in [Pixels(w, h) -> Lumas] } :
               w \in 1..MaxSide, h \in 1..MaxSide }

\* mutant of AboveThreshold: a pixel at the threshold counts as content
AboveThreshold_inclusive(img, x, y) == img.px[<<x, y>>] >= BLACK_LUMINANCE_THRESHOLD

\* pixel[0] > BLACK_LUMINANCE_THRESHOLD
AboveThreshold(img, x, y) == img.px[<<x, y>>] > BLACK_LUMINANCE_THRESHOLD

\* mutant of RowHasContent: a row counts only with two bright pixels
RowHasContent_two_pixels(img, y, width) ==
    \E x1, x2 \in 0..(width - 1) :
        x1 # x2 /\ AboveThreshold(img, x1, y) /\ AboveThreshold(img, x2, y)

\* for x in 0..width: has_content for row y
RowHasContent(img, y, width) == \E x \in 0..(width - 1) : AboveThreshold(img, x, y)

\* for y in 0..bottom_crop: has_content for column x
ColumnHasContent(img, x, bottom_crop) ==
    \E y \in 0..(bottom_crop - 1) : AboveThreshold(img, x, y)

\* mutant of ScanRows: an image without content is cut to nothing
ScanRows_nothing_when_black(img, y) ==
    LET rows == {r \in 0..y : RowHasContent(img, r, img.w)}
    IN  IF rows = {} THEN 0
        ELSE (CHOOSE r \in rows : \A q \in rows : q <= r) + 1

\* mutant of ScanRows: only the last row is ever dropped
ScanRows_last_row_only(img, y) ==
    IF y < 0 THEN img.h
    ELSE IF RowHasContent(img, y, img.w) THEN y + 1
    ELSE y

RECURSIVE ScanRows(_, _)
\* for y in (0..height).rev(), from row y upward: the bottom crop point
ScanRows(img, y) ==
    IF y < 0 THEN img.h
    ELSE IF RowHasContent(img, y, img.w) THEN y + 1
    ELSE ScanRows(img, y - 1)

\* mutant of ScanColumns: the crop point is the leftmost dark column
ScanColumns_leftmost_dark(img, x, bottom_crop) ==
    LET dark == {c \in 0..x : ~ColumnHasContent(img, c, bottom_crop)}
    IN  IF dark = {} THEN img.w
        ELSE CHOOSE c \in dark : \A d \in dark : c <= d

RECURSIVE ScanColumns(_, _, _)
\* for x in (0..width).rev(), from column x leftward: the right crop point
ScanColumns(img, x, bottom_crop) ==
    IF x < 0 THEN img.w
    ELSE IF ColumnHasContent(img, x, bottom_crop) THEN x + 1
    ELSE ScanColumns(img, x - 1, bottom_crop)

\* the validation below bottom_crop: all_black_below
AllBlackBelow(img, bottom_crop) ==
    \A y \in bottom_crop..(img.h - 1) : \A x \in 0..(img.w - 1) : ~AboveThreshold(img, x, y)

\* the validation right of right_crop: all_black_right
AllBlackRight(img, right_crop, bottom_crop) ==
    \A x \in right_crop..(img.w - 1) :
        \A y \in 0..(bottom_crop - 1) : ~AboveThreshold(img, x, y)

\* the bottom crop point after its validation
BottomCrop(img) ==
    LET found == ScanRows(img, img.h - 1)
    IN  IF found < img.h /\ ~AllBlackBelow(img, found) THEN img.h ELSE found

\* the right crop point after its validation
RightCrop(img, bottom_crop) ==
    LET found == ScanColumns(img, img.w - 1, bottom_crop)
    IN  IF found < img.w /\ ~AllBlackRight(img, found, bottom_crop) THEN img.w ELSE found

\* img.crop_imm(0, 0, right_crop, bottom_crop) as an image
CropTopLeft(img, right_crop, bottom_crop) ==
    LET r == crop_imm(img, 0, 0, right_crop, bottom_crop)
    IN  [w |-> r.w, h |-> r.h,
         px |-> [p \in Pixels(r.w, r.h) |-> img.px[<<r.x + p[1], r.y + p[2]>>]]]

\* fn crop_bottom_and_right_black_border(img) -> DynamicImage
crop_bottom_and_right_black_border(img) ==
    LET bottom_crop == BottomCrop(img)
        right_crop == RightCrop(img, bottom_crop)
    IN  IF bottom_crop = img.h /\ right_crop = img.w THEN img
        ELSE CropTopLeft(img, right_crop, bottom_crop)

InitTrim ==
    /\ NoDownload
    /\ grid = NoValue
    /\ asm = NoValue
    /\ view = NoValue
    /\ \E img \in LumaImages :
          trim = [pc |-> "bottom", input |-> img, img |-> img, calls |-> 0,
                  bottom_crop |-> 0, right_crop |-> 0, out |-> NoValue, first |-> NoValue]

\* the scan for the bottom crop point and its validation
TrimBottom ==
    /\ trim.pc = "bottom"
    /\ trim' = [trim EXCEPT !.pc = "right", !.bottom_crop = BottomCrop(trim.img)]
    /\ UNCHANGED <<download_vars, grid, asm, view>>

\* the scan for the right crop point and its validation
TrimRight ==
    /\ trim.pc = "right"
    /\ trim' = [trim EXCEPT !.pc = "crop",
                            !.right_crop = RightCrop(trim.img, trim.bottom_crop)]
    /\ UNCHANGED <<download_vars, grid, asm, view>>

\* the return: the input itself, or its top-left region
TrimReturn ==
    /\ trim.pc = "crop"
    /\ \E out \in { IF trim.bottom_crop = trim.img.h /\ trim.right_crop = trim.img.w
                    THEN trim.img
                    ELSE CropTopLeft(trim.img, trim.right_crop, trim.bottom_crop) } :
          trim' = [trim EXCEPT !.pc = "returned", !.out = out, !.calls = @ + 1,
                               !.first = IF trim.calls = 0 THEN out ELSE @]
    /\ UNCHANGED <<download_vars, grid, asm, view>>

\* the function is called again, on the image it returned
TrimAgain ==
    /\ trim.pc = "returned"
    /\ trim.calls = 1
    /\ trim' = [trim EXCEPT !.pc = "bottom", !.img = trim.out,
                            !.bottom_crop = 0, !.right_crop = 0, !.out = NoValue]
    /\ UNCHANGED <<download_vars, grid, asm, view>>

NextTrim == TrimBottom \/ TrimRight \/ TrimReturn \/ TrimAgain

SpecTrim == InitTrim /\ [][NextTrim]_vars

\* what the claims say of an input image
DarkRows(img, n) ==
    \A y \in (img.h - n)..(img.h - 1) : \A x \in 0..(img.w - 1) :
        img.px[<<x, y>>] <= BLACK_LUMINANCE_THRESHOLD
DarkColumns(img, m) ==
    \A x \in (img.w - m)..(img.w - 1) : \A y \in 0..(img.h - 1) :
        img.px[<<x, y>>] <= BLACK_LUMINANCE_THRESHOLD
BrightInBottomRows(img, n) ==
    {p \in Pixels(img.w, img.h) : p[2] >= img.h - n /\ img.px[p] > BLACK_LUMINANCE_THRESHOLD}
FirstCall == trim.pc = "returned" /\ trim.calls = 1

\* C16: for a W x H image whose bottom N rows and right M columns (N < H,
\* M < W) are entirely at or below the threshold, and whose row H-N-1 and
\* column W-M-1 each hold an above-threshold pixel inside the kept region,
\* the function returns exactly the top-left (W-M) x (H-N) region with its
\* pixels unchanged; with N = M = 0 the input is returned unchanged.
C16_TrimsDarkBottomAndRight ==
    FirstCall =>
        \A n \in 0..(trim.input.h - 1), m \in 0..(trim.input.w - 1) :
            (/\ DarkRows(trim.input, n)
             /\ DarkColumns(trim.input, m)
             /\ \E x \in 0..(trim.input.w - m - 1) :
                   trim.input.px[<<x, trim.input.h - n - 1>>] > BLACK_LUMINANCE_THRESHOLD
             /\ \E y \in 0..(trim.input.h - n - 1) :
                   trim.input.px[<<trim.input.w - m - 1, y>>] > BLACK_LUMINANCE_THRESHOLD) =>
                /\ trim.out.w = trim.input.w - m
                /\ trim.out.h = trim.input.h - n
                /\ \A p \in Pixels(trim.input.w - m, trim.input.h - n) :
                      trim.out.px[p] = trim.input.px[p]
                /\ (n = 0 /\ m = 0) => trim.out = trim.input

C16_Witness ==
    /\ FirstCall
    /\ trim.input.w = 3 /\ trim.input.h = 3
    /\ DarkRows(trim.input, 1) /\ DarkColumns(trim.input, 1)
    /\ trim.input.px[<<0, 1>>] > BLACK_LUMINANCE_THRESHOLD /\ trim.input.px[<<1, 0>>] > BLACK_LUMINANCE_THRESHOLD
    /\ trim.input.px[<<1, 1>>] <= BLACK_LUMINANCE_THRESHOLD
    /\ trim.out.w = 2 /\ trim.out.h = 2

\* C17 as stated: if the bottom N rows are at or below the threshold except
\* for a single above-threshold pixel anywhere inside those N rows (the last
\* row or any other of them), the vertical crop is aborted entirely: the
\* output height equals the input height.
C17_StrayPixelAnywhereKeepsHeight ==
    FirstCall =>
        \A n \in 1..trim.input.h :
            Cardinality(BrightInBottomRows(trim.input, n)) = 1 =>
                trim.out.h = trim.input.h

\* C17, amended: when the single above-threshold pixel of the bottom N rows
\* is in the last row the output height equals the input height; when it is
\* in a higher row r (counted from 0) the rows below r are trimmed and the
\* output height is r + 1.
C17_StrayPixelInLastRowKeepsHeight ==
    FirstCall =>
        \A n \in 1..trim.input.h :
            \A p \in BrightInBottomRows(trim.input, n) :
                Cardinality(BrightInBottomRows(trim.input, n)) = 1 =>
                    /\ p[2] = trim.input.h - 1 => trim.out.h = trim.input.h
                    /\ p[2] < trim.input.h - 1 => trim.out.h = p[2] + 1

C17_Witness ==
    /\ FirstCall
    /\ trim.input.w = 3 /\ trim.input.h = 3
    /\ BrightInBottomRows(trim.input, 2) = {<<1, 2>>}
    /\ trim.input.px[<<0, 0>>] > BLACK_LUMINANCE_THRESHOLD
    /\ trim.out.h = 3

\* C20: crop_bottom_and_right_black_border is idempotent: applied to its own
\* output it returns that output unchanged, and two calls on the same input
\* give the same result.
C20_TrimIdempotent ==
    /\ (trim.pc = "returned" /\ trim.calls = 2) => trim.out = trim.first
    /\ trim.pc = "returned" => trim.out = crop_bottom_and_right_black_border(trim.img)
    /\ FirstCall =>
          crop_bottom_and_right_black_border(trim.out) = trim.out

C20_Witness ==
    /\ trim.pc = "returned"
    /\ trim.calls = 2
    /\ trim.input.w = 3 /\ trim.input.h = 3
    /\ trim.first.w = 2 /\ trim.first.h = 1
    /\ trim.out = trim.first

\* C18: extract_multiple_views with N >= 1 configs downloads one panorama,
\* at the zoom of configs[0] whatever the zooms of the other configs, and
\* returns N views in the order of the configs, view i being
\* extract_view_from_panorama(panorama, configs[i]); when the download
\* fails it returns the download's error and no view.
C18_OneDownloadAtFirstZoom ==
    (call.fn = "extract_multiple_views" /\ call.configs # <<>> /\ pc # "init") =>
        /\ IF call.configs[1].zoom \in 1..7
           THEN tile_infos = iter_tile_info(call.configs[1].zoom)
           ELSE tile_infos = <<>> /\ pc = "done"
        /\ Len(assembled) <= 1
        /\ \A t \in DOMAIN fetches : fetches[t] <= DEFAULT_MAX_RETRIES + 1
        /\ pc = "done" =>
              /\ downloaded.kind \in {"Ok", "Err"}
              /\ downloaded.kind = "Err" => ret = downloaded
              /\ downloaded.kind = "Ok" =>
                    /\ Len(assembled) = 1
                    /\ ret.kind = "Ok"
                    /\ Len(ret.value) = Len(call.configs)
                    /\ \A i \in 1..Len(call.configs) :
                          ret.value[i] =
                              extract_view_from_panorama(downloaded.value,
                                                         call.configs[i]).value

C18_Witness ==
    /\ pc = "done"
    /\ call.fn = "extract_multiple_views"
    /\ Len(call.configs) = 2
    /\ call.configs[1].heading = 180 /\ call.configs[2].heading = 0
    /\ call.configs[1].zoom = 1 /\ call.configs[2].zoom = 8
    /\ ret.kind = "Ok"
    /\ Len(ret.value) = 2
    /\ ret.value[1] # ret.value[2]

(***************************************************************************)
(* More properties of the assembly (SpecAssemble).                         *)
(***************************************************************************)
\* Offsets inside a tile at which the pixels are compared: the first, the
\* middle and the last of a row or column.  Pastes are rectangles, so a tile
\* whose four corners show its own pixels at their own offsets, and no other
\* paste, fills its whole cell alone.
TileSamples == {0, TILE_WIDTH \div 2, TILE_WIDTH - 1}

AllNominal(tiles) ==
    \A k \in DOMAIN tiles :
        tiles[k].image.w = TILE_WIDTH /\ tiles[k].image.h = TILE_HEIGHT

PastesCovering(raster, px, py) ==
    {k \in 1..Len(raster.pastes) : Covers(raster.pastes[k], px, py)}

\* the panorama res is the grid of tiles, each tile alone in its own cell
TilesInPlace(res, tiles, zoom) ==
    /\ res.kind = "Ok"
    /\ res.value.w = get_width_and_height_from_zoom(zoom).width * TILE_WIDTH
    /\ res.value.h = get_width_and_height_from_zoom(zoom).height * TILE_HEIGHT
    /\ \A k \in DOMAIN tiles : \A i \in TileSamples, j \in TileSamples :
          /\ PixelAt(res.value, tiles[k].x * TILE_WIDTH + i, tiles[k].y * TILE_HEIGHT + j)
                = <<tiles[k].image.src, i, j>>
          /\ Cardinality(PastesCovering(res.value, tiles[k].x * TILE_WIDTH + i,
                                        tiles[k].y * TILE_HEIGHT + j)) = 1
    /\ \A px \in CellPixels(res.value.w), py \in CellPixels(res.value.h) :
          Cardinality(PastesCovering(res.value, px, py)) = 1

\* C21: after assembling a complete grid of 512 x 512 tiles, panorama pixel
\* (x*512 + i, y*512 + j) is pixel (i, j) of the tile addressed (x, y), for
\* every tile, and every panorama pixel is written by exactly one tile: no
\* gap and no overlap.
C21_TilesPastedAtTheirOffsets ==
    AllNominal(asm.tiles) =>
        /\ asm.pc \in {"assembled", "shuffled"} =>
              TilesInPlace(asm.reference, asm.tiles, asm.zoom)
        /\ asm.pc = "shuffled" =>
              TilesInPlace(asm.shuffled, asm.tiles, asm.zoom)

C21_Witness ==
    /\ asm.pc = "shuffled"
    /\ asm.zoom = 2
    /\ AllNominal(asm.tiles)
    /\ asm.order # asm.tiles
    /\ asm.shuffled.kind = "Ok"
    /\ PixelAt(asm.shuffled.value, 3 * TILE_WIDTH + 1, TILE_HEIGHT + 2)
          = <<asm.tiles[8].image.src, 1, 2>>

(***************************************************************************)
(* More properties of the crop window (SpecView).                          *)
(***************************************************************************)
Extracted == view.pc = "extracted"
Window == CropWindow(view.panorama, view.config)
InDomain ==
    /\ view.config.heading \in 0..359
    /\ view.config.fov \in 1..180
    /\ view.config.pitch \in -90..90

\* C22: for every W x H panorama and every ViewConfig with heading in
\* [0, 360), fov in (0, 180] and pitch in [-90, 90], the crop window satisfies
\* 0 <= x_start <= x_end <= W and 0 <= y_start <= y_end <= H, and it is the
\* rectangle cut out of the panorama.
C22_WindowInsidePanorama ==
    (Extracted /\ InDomain) =>
        /\ 0 <= Window.x_start /\ Window.x_start <= Window.x_end
        /\ Window.x_end <= view.panorama.w
        /\ 0 <= Window.y_start /\ Window.y_start <= Window.y_end
        /\ Window.y_end <= view.panorama.h
        /\ view.out.kind = "Ok"
        /\ view.out.value.region.x = Window.x_start
        /\ view.out.value.region.y = Window.y_start
        /\ view.out.value.region.w = Window.x_end - Window.x_start
        /\ view.out.value.region.h = Window.y_end - Window.y_start

C22_Witness ==
    /\ Extracted
    /\ InDomain
    /\ view.config.heading = 359 /\ view.config.fov = 180 /\ view.config.pitch = -90
    /\ view.config.size.kind = "None"
    /\ view.panorama.w = 1024
    /\ Window.x_start > 0 /\ Window.x_end = 1024
    /\ Window.y_start = 256 /\ Window.y_end = 512
    /\ view.out.value.region.w < Window.crop_width

\* C23: the crop window is never wrapped across the 0/360 seam: whenever
\* the ideal window [cx - cropWidth/2, cx + cropWidth/2) extends past x = 0
\* or past x = W, the returned view is that window cut to [0, W), at the left
\* edge as at the right edge, and so is narrower than cropWidth.
C23_TruncatedAtBothEdges ==
    (Extracted /\ InDomain /\ view.out.kind = "Ok") =>
        LET left == Window.center_x - Window.half_width
            right == left + Window.crop_width
            r == view.out.value.region
        IN  (left < 0 \/ right > view.panorama.w) =>
                /\ r.x = (IF left < 0 THEN 0 ELSE left)
                /\ r.x + r.w = Min(right, view.panorama.w)
                /\ r.w < Window.crop_width

\* C30: for every ViewConfig the public API can construct (a heading of 360
\* or more, fov = 0, a target size with a zero width or height included) the
\* unsigned crop arithmetic of extract_view_from_panorama neither underflows
\* nor overflows: x_start <= x_end, y_start <= y_end, and x_start + crop_width
\* and y_start + crop_height fit in 32 bits.
C30_CropArithmeticInRange ==
    Extracted =>
        /\ ~CropArithmeticOverflows(view.panorama, view.config)
        /\ Window.x_start <= Window.x_end
        /\ Window.y_start <= Window.y_end
        /\ view.out.kind # "Panic"

(***************************************************************************)
(* More properties of the retry loop and of download_tiles (Spec,          *)
(* FairSpec).                                                              *)
(***************************************************************************)
\* C24: within one tile's retry loop every failed attempt that is not the
\* final one is followed by exactly one pause of the same fixed length
\* (RETRY_DELAY_SECS, whatever the attempt number) before the next attempt;
\* no pause precedes the first attempt, and none follows a successful attempt
\* or the final failed attempt.
C24_OneFixedPauseBetweenAttempts ==
    \A t \in Tiles :
        /\ \A k \in DOMAIN sleeps[t] : sleeps[t][k] = 2
        /\ task[t].st = "pending" => (fetches[t] = 0 /\ sleeps[t] = <<>>)
        /\ task[t].st = "fetching" => Len(sleeps[t]) = fetches[t]
        /\ task[t].st = "sleeping" => (fetches[t] >= 1 /\ Len(sleeps[t]) = fetches[t])
        /\ task[t].st = "succeeded" => Len(sleeps[t]) = fetches[t] - 1
        /\ task[t].st = "failed" => (fetches[t] = 7 /\ Len(sleeps[t]) = 6)

C24_Witness ==
    \E t, u \in Tiles :
        /\ task[t].st = "succeeded" /\ fetches[t] = 3 /\ sleeps[t] = <<2, 2>>
        /\ task[u].st = "failed" /\ sleeps[u] = <<2, 2, 2, 2, 2, 2>>

Pending == {t \in Tiles : task[t].st = "pending"}

\* C25: the failure of one tile never shortens the run: after a tile has
\* reached Failed, download_tiles still starts every tile that has not been
\* started yet (the window is refilled as before), and it returns its error
\* only after every tile of the grid has been requested and has reached
\* Succeeded or Failed.
C25_State ==
    /\ (pc = "downloading" /\ AnyFailed /\ Pending # {}) =>
          Cardinality(InFlight) = 8
    /\ (pc = "downloading" /\ AnyFailed) => (ret.kind = "None" /\ downloaded.kind = "None")
    /\ (pc = "done" /\ AnyFailed) =>
          /\ Pending = {}
          /\ InFlight = {}
          /\ \A t \in Tiles : fetches[t] >= 1
          /\ Len(results) = (2 ^ PassedZoom) * (2 ^ (PassedZoom - 1))

C25_FailureDoesNotShortenTheRun ==
    /\ [](C25_State)
    /\ ((AnyFailed /\ Pending # {}) ~> (Pending = {} /\ pc = "done"))

C25_Witness ==
    /\ pc = "done"
    /\ Len(tile_infos) = 32
    /\ results[1].kind = "Err"
    /\ task[1].st = "failed"
    /\ \A t \in 2..32 : task[t].st = "succeeded" /\ fetches[t] = 1

Failed == {t \in Tiles : task[t].st = "failed"}

\* the place of tile t in the completion order
CompletedAt(t) == CHOOSE k \in DOMAIN completed : completed[k] = t

\* C26: when two or more tiles reach Failed in one download, the error
\* download_panorama returns is that of the failed tile that finished first
\* in completion order, not that of the earliest failed tile of the grid; had
\* the failed tiles finished in another order, the same outcomes would have
\* given the error of another tile.
C26_ErrorOfFirstFailureToComplete ==
    (pc = "done" /\ Cardinality(Failed) >= 2) =>
        /\ \A k \in DOMAIN completed : results[k] = task[completed[k]].out
        /\ \E t \in Failed :
              /\ \A u \in Failed : CompletedAt(t) <= CompletedAt(u)
              /\ downloaded = task[t].out
              /\ \A u \in Failed :
                    CollectResults(Swap(results, CompletedAt(t), CompletedAt(u)))
                        = task[u].out

C26_Witness ==
    /\ pc = "done"
    /\ Failed = {1, 2}
    /\ completed = <<2, 1>>
    /\ task[1].out # task[2].out
    /\ downloaded = task[2].out

RECURSIVE TotalFetches(_)
\* the requests sent for the first k tiles
TotalFetches(k) == IF k = 0 THEN 0 ELSE fetches[k] + TotalFetches(k - 1)

C27_State == TotalFetches(Len(fetches)) <= 7 * Len(tile_infos)

C27_Step ==
    \A t \in Tiles :
        task[t].st \in {"succeeded", "failed"} =>
            (task'[t] = task[t] /\ fetches'[t] = fetches[t])

\* C27: when every fetch attempt eventually completes, every call eventually
\* returns, after at most 7 * gridWidth * gridHeight fetch attempts in total;
\* Succeeded and Failed are absorbing states of a tile.
C27_EveryCallReturns ==
    /\ <>(pc = "done" /\ ret.kind \in {"Ok", "Err"})
    /\ [](C27_State)
    /\ [][C27_Step]_vars

C27_Witness ==
    /\ pc = "done"
    /\ call.fn = "download_panorama"
    /\ Failed = {1, 2}
    /\ TotalFetches(2) = 14
    /\ ret.kind = "Err"

(***************************************************************************)
(* More properties of the border trimming (SpecTrim).                      *)
(***************************************************************************)
\* C28: the verify-or-abort step never fires: after the upward scan every
\* row from bottom_crop on is entirely at or below the threshold, and after
\* the leftward scan every column from right_crop on is at or below the
\* threshold within rows [0, bottom_crop); all_black_below and
\* all_black_right are true in every execution and a found boundary is never
\* reset.
C28_VerificationNeverFires ==
    /\ trim.pc \in {"right", "crop", "returned"} =>
          /\ AllBlackBelow(trim.img, ScanRows(trim.img, trim.img.h - 1))
          /\ trim.bottom_crop = ScanRows(trim.img, trim.img.h - 1)
          /\ \A y \in trim.bottom_crop..(trim.img.h - 1) : \A x \in 0..(trim.img.w - 1) :
                trim.img.px[<<x, y>>] <= BLACK_LUMINANCE_THRESHOLD
    /\ trim.pc \in {"crop", "returned"} =>
          /\ AllBlackRight(trim.img,
                           ScanColumns(trim.img, trim.img.w - 1, trim.bottom_crop),
                           trim.bottom_crop)
          /\ trim.right_crop = ScanColumns(trim.img, trim.img.w - 1, trim.bottom_crop)
          /\ \A x \in trim.right_crop..(trim.img.w - 1) :
             \A y \in 0..(trim.bottom_crop - 1) :
                trim.img.px[<<x, y>>] <= BLACK_LUMINANCE_THRESHOLD

C28_Witness ==
    /\ trim.pc = "crop"
    /\ trim.calls = 0
    /\ trim.img.w = 3 /\ trim.img.h = 3
    /\ trim.bottom_crop = 2
    /\ trim.right_crop = 1
    /\ trim.img.px[<<2, 2>>] <= BLACK_LUMINANCE_THRESHOLD

\* C29: for every input image of at least 1 x 1 pixels the function returns
\* an image with 1 <= width <= input width and 1 <= height <= input height;
\* an image entirely at or below the threshold is returned unchanged, not
\* cropped to nothing.
C29_NeverCroppedToNothing ==
    trim.pc = "returned" =>
        /\ 1 <= trim.out.w /\ trim.out.w <= trim.img.w
        /\ 1 <= trim.out.h /\ trim.out.h <= trim.img.h
        /\ DarkRows(trim.img, trim.img.h) => trim.out = trim.img

C29_Witness ==
    /\ trim.pc = "returned"
    /\ trim.calls = 1
    /\ trim.input.w = 2 /\ trim.input.h = 3
    /\ DarkRows(trim.input, 3)
    /\ trim.out = trim.input

====
